---- MODULE Spec2Model ----
(***************************************************************************)
(* Model of the three reactivity examples of arkenidar/dhtml:              *)
(*   reactivity/check-boxes.js   derived state (bind_checkboxes)           *)
(*   reactivity/multipliers.js   one-to-many dependency (multipliers)      *)
(*   reactivity/synchro.js       peer synchronisation (sync), as listed in *)
(*                               the reactivity README                     *)
(* Each page is a separate document, so each has its own specification;    *)
(* the variables of the pages a specification does not use stay idle.      *)
(***************************************************************************)
EXTENDS Integers, Sequences, FiniteSets

VARIABLES
    \* ---- check-boxes page
    members,    \* container -> set of checkboxes below it (the markup)
    checked,    \* checkbox -> its checked property
    oninput,    \* checkbox -> binding whose cb_handler is its oninput, or "none"
    cb_list,    \* binding -> the cb_list array of its closure
    bg,         \* container -> style.backgroundColor
    pcCB,       \* number of top-level bind_checkboxes calls already made
    eventLog,   \* input events dispatched so far, in dispatch order
    runLog,     \* cb_handler invocations so far, in invocation order
    writeLog,   \* writes of style.backgroundColor so far, in order
    \* ---- multipliers page
    layout,     \* the sibling elements of the page, in order: their kinds
    value,      \* element -> the value of the input (a text), <<>> for a box
    textContent,\* element -> the text of the .multiplier_output of a box
    pcMul,      \* "load" before the script has run, "ready" after
    raised,     \* the last script or handler run ended in an uncaught TypeError
    \* ---- synchro page
    inputValue, \* input -> its value
    syncOninput,\* input -> the sync call whose handler is its oninput, or 0
    pcSync,     \* number of top-level sync calls already made
    lastEdit,   \* sync call -> the latest user edit its handler took: the
                \* member edited and the text typed; member 0: none yet
    firings,    \* the handlers run for the latest user edit, in order
    writes      \* the inputs whose value those handlers assigned, in order

cbVars == <<members, checked, oninput, cb_list, bg, pcCB, eventLog, runLog, writeLog>>

mulVars == <<layout, value, textContent, pcMul, raised>>

syncVars == <<inputValue, syncOninput, pcSync, lastEdit, firings, writes>>

vars == <<cbVars, mulVars, syncVars>>

-----------------------------------------------------------------------------
(* Bounds *)

\* number of input events followed in one behaviour
MaxEvents == 3

-----------------------------------------------------------------------------
(* check-boxes page *)

\* the two containers the script binds, in the order of its two calls
Containers == <<"result1", "result2">>
ContainerSet == {Containers[i] : i \in 1..Len(Containers)}

\* result1 holds 3 checkboxes and result2 holds 4
NumResult1 == 3
NumResult2 == 4
Cbs == 1..(NumResult1 + NumResult2)

\* the markup of the shipped page: two disjoint containers
ShippedMembers ==
    [g \in ContainerSet |->
        IF g = "result1" THEN 1..NumResult1
        ELSE (NumResult1 + 1)..(NumResult1 + NumResult2)]

Min(S) == CHOOSE x \in S : \A y \in S : x <= y

RECURSIVE InDocumentOrder(_)
InDocumentOrder(S) ==
    IF S = {} THEN <<>>
    ELSE <<Min(S)>> \o InDocumentOrder(S \ {Min(S)})

\* cb_group.querySelectorAll('input[type=checkbox]'): the checkboxes below
\* the container, in document order
querySelectorAll(mem, g) == InDocumentOrder(mem[g])

\* cb_list.every(cb => cb.checked)
every_checked(list, chk) == \A i \in 1..Len(list) : chk[list[i]]

\* a handler that tests some checkbox instead of every checkbox
handler_colour_some(list, chk) ==
    IF \E i \in 1..Len(list) : chk[list[i]] THEN "lightgreen" ELSE ""

\* the colour cb_handler assigns: ok ? 'lightgreen' : ""
handler_colour(list, chk) == IF every_checked(list, chk) THEN "lightgreen" ELSE ""

\* `this` of the direct call cb_handler() at the end of bind_checkboxes (no
\* checkbox); an event dispatch calls the handler with this = the checkbox
DirectCall == 0

\* the part of the page state a cb_handler run touches
CbOut(b, r, w) == [bg |-> b, runLog |-> r, writeLog |-> w]

\* a handler that writes the colour only when it changes
cb_handler_lazy(g, self, list, chk, s) ==
    LET colour == handler_colour(list, chk)
    IN  CbOut([s.bg EXCEPT ![g] = colour],
              Append(s.runLog, [binding |-> g, this |-> self]),
              IF s.bg[g] = colour THEN s.writeLog
              ELSE Append(s.writeLog, [sink |-> g, value |-> colour]))

\* a handler that flips the colour it finds instead of computing it
cb_handler_flip(g, self, list, chk, s) ==
    LET colour == IF s.bg[g] = "" THEN "lightgreen" ELSE ""
    IN  CbOut([s.bg EXCEPT ![g] = colour],
              Append(s.runLog, [binding |-> g, this |-> self]),
              Append(s.writeLog, [sink |-> g, value |-> colour]))

\* one run of the cb_handler closure of binding g, called with this = self
cb_handler(g, self, list, chk, s) ==
    LET colour == handler_colour(list, chk)
    IN  CbOut([s.bg EXCEPT ![g] = colour],
              Append(s.runLog, [binding |-> g, this |-> self]),
              Append(s.writeLog, [sink |-> g, value |-> colour]))

\* the oninput properties after the forEach of bind_checkboxes(g)
assign_oninput(oi, mem, g) ==
    [c \in Cbs |-> IF c \in mem[g] THEN g ELSE oi[c]]

\* bind_checkboxes(cb_group), called from the top level of the script
bind_checkboxes(g) ==
    /\ pcCB < Len(Containers)
    /\ g = Containers[pcCB + 1]
    /\ LET list == querySelectorAll(members, g)
           out  == cb_handler(g, DirectCall, list, checked,
                              CbOut(bg, runLog, writeLog))
       IN  /\ cb_list' = [cb_list EXCEPT ![g] = list]
           /\ oninput' = assign_oninput(oninput, members, g)
           /\ bg' = out.bg
           /\ runLog' = out.runLog
           /\ writeLog' = out.writeLog
    /\ pcCB' = pcCB + 1
    /\ UNCHANGED <<members, checked, eventLog, mulVars, syncVars>>

\* the handlers the browser calls for an input event on checkbox c: the
\* single oninput property, when set
handlers_of(oi, c) == IF oi[c] = "none" THEN <<>> ELSE <<oi[c]>>

RECURSIVE run_handlers(_, _, _, _, _)
run_handlers(hs, c, lists, chk, s) ==
    IF hs = <<>> THEN s
    ELSE run_handlers(Tail(hs), c, lists, chk,
                      cb_handler(Head(hs), c, lists[Head(hs)], chk, s))

\* the user toggles checkbox c; the browser flips checked and dispatches the
\* input event, which runs to completion
Toggle(c) ==
    /\ pcCB = Len(Containers)
    /\ Len(eventLog) < MaxEvents
    /\ checked' = [checked EXCEPT ![c] = ~checked[c]]
    /\ eventLog' = Append(eventLog, c)
    /\ LET out == run_handlers(handlers_of(oninput, c), c, cb_list, checked',
                               CbOut(bg, runLog, writeLog))
       IN  /\ bg' = out.bg
           /\ runLog' = out.runLog
           /\ writeLog' = out.writeLog
    /\ UNCHANGED <<members, oninput, cb_list, pcCB, mulVars, syncVars>>

\* the other pages are separate documents: they stay as they are
SyncIdle ==
    /\ inputValue = <<>> /\ syncOninput = <<>> /\ pcSync = 0
    /\ lastEdit = <<>> /\ firings = <<>> /\ writes = <<>>

MulIdle ==
    /\ layout = <<>> /\ value = <<>> /\ textContent = <<>>
    /\ pcMul = "idle" /\ raised = FALSE

InitCBWith(mem) ==
    /\ MulIdle
    /\ SyncIdle
    /\ members = mem
    /\ checked \in [Cbs -> BOOLEAN]
    /\ oninput = [c \in Cbs |-> "none"]
    /\ cb_list = [g \in ContainerSet |-> <<>>]
    /\ bg = [g \in ContainerSet |-> ""]
    /\ pcCB = 0
    /\ eventLog = <<>>
    /\ runLog = <<>>
    /\ writeLog = <<>>

InitCB == InitCBWith(ShippedMembers)

NextCB ==
    \/ \E g \in ContainerSet : bind_checkboxes(g)
    \/ \E c \in Cbs : Toggle(c)

SpecCB == InitCB /\ [][NextCB]_vars

\* markups other than the shipped one: a tree, so two containers are nested
\* or disjoint, and a container may hold no checkbox at all
Result2InsideResult1 ==
    [g \in ContainerSet |->
        IF g = "result1" THEN Cbs ELSE (NumResult1 + 1)..(NumResult1 + NumResult2)]
Result1InsideResult2 ==
    [g \in ContainerSet |-> IF g = "result1" THEN 1..NumResult1 ELSE Cbs]
Result1Empty ==
    [g \in ContainerSet |->
        IF g = "result1" THEN {} ELSE (NumResult1 + 1)..(NumResult1 + NumResult2)]
Result2Empty ==
    [g \in ContainerSet |-> IF g = "result1" THEN 1..NumResult1 ELSE {}]
Layouts == {ShippedMembers, Result2InsideResult1, Result1InsideResult2,
            Result1Empty, Result2Empty}

InitLayouts == \E mem \in Layouts : InitCBWith(mem)

SpecLayouts == InitLayouts /\ [][NextCB]_vars

-----------------------------------------------------------------------------
(* multipliers page: texts and numbers *)

\* The inputs are text inputs: their value is whatever text was typed or
\* assigned.  A text is a sequence of characters.  The texts of the model
\* are made of digits, signs, the space, the letters a, b, x and X, and the
\* letters of "NaN": none is a fraction, an exponent form or "Infinity".
DigitChars == <<"0", "1", "2", "3", "4", "5", "6", "7", "8", "9">>
IsDigit(c) == \E i \in 1..Len(DigitChars) : DigitChars[i] = c
DigitValue(c) == (CHOOSE i \in 1..Len(DigitChars) : DigitChars[i] = c) - 1
IsWhiteSpace(c) == c = " "

\* a number: an integer, or the not-a-number value
Num(n) == [nan |-> FALSE, n |-> n]
NaN == [nan |-> TRUE, n |-> 0]

RECURSIVE SkipWhiteSpace(_)
SkipWhiteSpace(s) ==
    IF s # <<>> /\ IsWhiteSpace(Head(s)) THEN SkipWhiteSpace(Tail(s)) ELSE s

RECURSIVE DropTrailingWhiteSpace(_)
DropTrailingWhiteSpace(s) ==
    IF s # <<>> /\ IsWhiteSpace(s[Len(s)])
    THEN DropTrailingWhiteSpace(SubSeq(s, 1, Len(s) - 1)) ELSE s

RECURSIVE DigitPrefix(_)
DigitPrefix(s) ==
    IF s # <<>> /\ IsDigit(Head(s)) THEN <<Head(s)>> \o DigitPrefix(Tail(s))
    ELSE <<>>

RECURSIVE DigitsValue(_)
DigitsValue(d) ==
    IF d = <<>> THEN 0
    ELSE 10 * DigitsValue(SubSeq(d, 1, Len(d) - 1)) + DigitValue(d[Len(d)])

\* the digits of the radices up to 16, in lower and in upper case
RadixChars ==
    <<"0", "1", "2", "3", "4", "5", "6", "7", "8", "9",
      "a", "b", "c", "d", "e", "f">>
UpperRadixChars ==
    <<"0", "1", "2", "3", "4", "5", "6", "7", "8", "9",
      "A", "B", "C", "D", "E", "F">>
IsRadixDigit(c, r) ==
    \E i \in 1..r : RadixChars[i] = c \/ UpperRadixChars[i] = c
RadixDigitValue(c) ==
    (CHOOSE i \in 1..Len(RadixChars) :
        RadixChars[i] = c \/ UpperRadixChars[i] = c) - 1

RECURSIVE RadixPrefix(_, _)
RadixPrefix(s, r) ==
    IF s # <<>> /\ IsRadixDigit(Head(s), r)
    THEN <<Head(s)>> \o RadixPrefix(Tail(s), r)
    ELSE <<>>

RECURSIVE RadixValue(_, _)
RadixValue(d, r) ==
    IF d = <<>> THEN 0
    ELSE r * RadixValue(SubSeq(d, 1, Len(d) - 1), r) + RadixDigitValue(d[Len(d)])

\* the text begins with 0x or 0X
HasHexPrefix(u) == Len(u) >= 2 /\ u[1] = "0" /\ (u[2] = "x" \/ u[2] = "X")

\* the radix a numeral's prefix 0x, 0o or 0b announces to ++, in either
\* case; 10 when there is none
PrefixRadix(u) ==
    IF Len(u) < 2 \/ u[1] # "0" THEN 10
    ELSE IF u[2] = "x" \/ u[2] = "X" THEN 16
    ELSE IF u[2] = "o" \/ u[2] = "O" THEN 8
    ELSE IF u[2] = "b" \/ u[2] = "B" THEN 2
    ELSE 10

HasSign(s) == s # <<>> /\ (Head(s) = "-" \/ Head(s) = "+")
SignOf(s) == IF s # <<>> /\ Head(s) = "-" THEN 0 - 1 ELSE 1

\* a parse that takes only a whole numeral: anything after the digits makes
\* the text not a number
parse_whole_text(s) ==
    LET t == SkipWhiteSpace(s)
        u == IF HasSign(t) THEN Tail(t) ELSE t
        d == DigitPrefix(u)
    IN  IF d = <<>> \/ d # u THEN NaN ELSE Num(SignOf(t) * DigitsValue(d))

\* parseInt(text), called without a radix: leading white space is skipped,
\* a sign is read; after a prefix 0x or 0X the longest run of hexadecimal
\* digits is read, otherwise the longest run of decimal digits; what
\* follows the digits is ignored; no digit: NaN
parseInt(s) ==
    LET t == SkipWhiteSpace(s)
        u == IF HasSign(t) THEN Tail(t) ELSE t
        h == HasHexPrefix(u)
        d == IF h THEN RadixPrefix(SubSeq(u, 3, Len(u)), 16) ELSE DigitPrefix(u)
    IN  IF d = <<>> THEN NaN
        ELSE Num(SignOf(t) * (IF h THEN RadixValue(d, 16) ELSE DigitsValue(d)))

\* the conversion of a text to a number made by ++: white space is trimmed
\* at both ends, the empty text is 0, and the whole rest must be a numeral:
\* a signed decimal one, or an unsigned one with the prefix 0x, 0o or 0b
ToNumber(s) ==
    LET t == DropTrailingWhiteSpace(SkipWhiteSpace(s))
        u == IF HasSign(t) THEN Tail(t) ELSE t
        d == DigitPrefix(u)
        r == PrefixRadix(t)
        e == SubSeq(t, 3, Len(t))
    IN  IF t = <<>> THEN Num(0)
        ELSE IF r # 10
             THEN IF e # <<>> /\ RadixPrefix(e, r) = e
                  THEN Num(RadixValue(e, r)) ELSE NaN
        ELSE IF d = <<>> \/ d # u THEN NaN
        ELSE Num(SignOf(t) * DigitsValue(d))

RECURSIVE DigitsOf(_)
DigitsOf(n) ==
    IF n < 10 THEN <<DigitChars[n + 1]>>
    ELSE DigitsOf(n \div 10) \o <<DigitChars[(n % 10) + 1]>>

\* the text of a number, as a template literal or an assignment to .value
\* makes it
NumberToString(x) ==
    IF x.nan THEN <<"N", "a", "N">>
    ELSE IF x.n < 0 THEN <<"-">> \o DigitsOf(0 - x.n)
    ELSE DigitsOf(x.n)

\* a product that takes a missing operand for 0
times_or_zero(x, y) == Num((IF x.nan THEN 0 ELSE x.n) * (IF y.nan THEN 0 ELSE y.n))

\* value1 * value2
Times(x, y) == IF x.nan \/ y.nan THEN NaN ELSE Num(x.n * y.n)

\* x + 1, the increment of ++
PlusOne(x) == IF x.nan THEN NaN ELSE Num(x.n + 1)

\* `${value1} * ${value2} => ${value1 * value2}`
output_text(value1, value2) ==
    NumberToString(value1) \o <<" ", "*", " ">> \o NumberToString(value2)
        \o <<" ", "=", ">", " ">> \o NumberToString(Times(value1, value2))

-----------------------------------------------------------------------------
(* multipliers page: elements and operations *)

\* kinds of sibling elements: the two kinds of input, and the element that
\* follows an input and holds its button and, for a specific multiplier,
\* its .multiplier_output
IsInput(lay, i) ==
    lay[i] = "common_multiplier" \/ lay[i] = "specific_multiplier"
Specifics(lay) == {i \in 1..Len(lay) : lay[i] = "specific_multiplier"}
Boxes(lay) == {i \in 1..Len(lay) : lay[i] = "box"}

\* where find_input ends when no element carries the class: past the first
\* sibling, where previousElementSibling is null
NoElement == 0

\* a search that takes the first element of the document carrying
\* className, as document.querySelector does
find_first_in_document(lay, i, className) ==
    IF \E j \in 1..Len(lay) : lay[j] = className
    THEN Min({j \in 1..Len(lay) : lay[j] = className})
    ELSE NoElement

\* find_input(input, className): from element i backwards through the
\* previous element siblings, the first element that carries className
RECURSIVE find_input(_, _, _)
find_input(lay, i, className) ==
    IF i = NoElement THEN NoElement
    ELSE IF lay[i] = className THEN i
    ELSE find_input(lay, i - 1, className)

\* the result of a run: the outputs, and whether it ended in a TypeError
MulOut(tc, r) == [textContent |-> tc, raised |-> r]

\* an update that writes the first .multiplier_output of the document, as
\* document.querySelector does, instead of the one beside the dependent
RECURSIVE update_first_output(_, _, _, _)
update_first_output(list, lay, val, tc) ==
    IF list = <<>> THEN MulOut(tc, FALSE)
    ELSE LET specific_multiplier == Head(list)
             value1 == parseInt(val[specific_multiplier])
             common_multiplier ==
                 find_input(lay, specific_multiplier, "common_multiplier")
         IN  IF common_multiplier = NoElement
                \/ specific_multiplier + 1 \notin Boxes(lay)
             THEN MulOut(tc, TRUE)
             ELSE LET value2 == parseInt(val[common_multiplier])
                  IN  update_first_output(Tail(list), lay, val,
                          [tc EXCEPT ![Min(Specifics(lay)) + 1] =
                              output_text(value1, value2)])

\* an update that catches the TypeError of a dependent and goes on with
\* the next one
RECURSIVE update_skipping_failures(_, _, _, _)
update_skipping_failures(list, lay, val, tc) ==
    IF list = <<>> THEN MulOut(tc, FALSE)
    ELSE LET specific_multiplier == Head(list)
             value1 == parseInt(val[specific_multiplier])
             common_multiplier ==
                 find_input(lay, specific_multiplier, "common_multiplier")
         IN  IF common_multiplier = NoElement
                \/ specific_multiplier + 1 \notin Boxes(lay)
             THEN update_skipping_failures(Tail(list), lay, val, tc)
             ELSE LET value2 == parseInt(val[common_multiplier])
                  IN  update_skipping_failures(Tail(list), lay, val,
                          [tc EXCEPT ![specific_multiplier + 1] =
                              output_text(value1, value2)])

\* update_specific_multipliers(specific_multipliers): for each element of
\* the list in turn, write its output; a TypeError ends the pass
RECURSIVE update_specific_multipliers(_, _, _, _)
update_specific_multipliers(list, lay, val, tc) ==
    IF list = <<>> THEN MulOut(tc, FALSE)
    ELSE LET specific_multiplier == Head(list)
             value1 == parseInt(val[specific_multiplier])
             common_multiplier ==
                 find_input(lay, specific_multiplier, "common_multiplier")
         IN  IF common_multiplier = NoElement
                \/ specific_multiplier + 1 \notin Boxes(lay)
             THEN MulOut(tc, TRUE)
             ELSE LET value2 == parseInt(val[common_multiplier])
                  IN  update_specific_multipliers(Tail(list), lay, val,
                          [tc EXCEPT ![specific_multiplier + 1] =
                              output_text(value1, value2)])

\* an update that takes querySelector, the first match only
update_first_multiplier(lay, val, tc) ==
    update_specific_multipliers(
        SubSeq(InDocumentOrder(Specifics(lay)), 1, 1), lay, val, tc)

\* update_all_multipliers(): every .specific_multiplier, in document order
update_all_multipliers(lay, val, tc) ==
    update_specific_multipliers(InDocumentOrder(Specifics(lay)), lay, val, tc)

\* the oninput handler of input i: a specific multiplier updates itself, a
\* common multiplier updates all
oninput_handler(lay, i, val, tc) ==
    IF lay[i] = "specific_multiplier"
    THEN update_specific_multipliers(<<i>>, lay, val, tc)
    ELSE update_all_multipliers(lay, val, tc)

\* numbers the buttons count up to
MaxValue == 2

\* the script's top-level call update_all_multipliers()
Load ==
    /\ pcMul = "load"
    /\ LET out == update_all_multipliers(layout, value, textContent)
       IN  textContent' = out.textContent /\ raised' = out.raised
    /\ pcMul' = "ready"
    /\ UNCHANGED <<layout, value, cbVars, syncVars>>

\* the page after the user has set input i to text t and its input event
\* has been handled
edit_result(lay, val, tc, i, t) ==
    LET val2 == [val EXCEPT ![i] = t]
        out  == oninput_handler(lay, i, val2, tc)
    IN  [value |-> val2, textContent |-> out.textContent, raised |-> out.raised]

\* an increment that forgets input.oninput()
increment_without_oninput(lay, val, tc, i) ==
    [value |-> [val EXCEPT ![i] = NumberToString(PlusOne(ToNumber(val[i])))],
     textContent |-> tc, raised |-> FALSE]

\* the page after increment_multiplier on input i: input.value++, then
\* input.oninput()
increment_result(lay, val, tc, i) ==
    LET val2 == [val EXCEPT ![i] = NumberToString(PlusOne(ToNumber(val[i])))]
        out  == oninput_handler(lay, i, val2, tc)
    IN  [value |-> val2, textContent |-> out.textContent, raised |-> out.raised]

\* the texts a user types: empty, numerals (plain, signed, after white
\* space), digits followed by letters, letters, a hexadecimal numeral and
\* its bare prefix
Texts == { <<>>, <<"2">>, <<"-", "1">>, <<" ", "1">>,
           <<"1", "2", "a">>, <<"a", "b">>,
           <<"0", "x", "1">>, <<"0", "x">> }

\* the user edits input i to hold text t
Edit(i, t) ==
    /\ pcMul = "ready"
    /\ IsInput(layout, i)
    /\ value[i] # t
    /\ LET r == edit_result(layout, value, textContent, i, t)
       IN  value' = r.value /\ textContent' = r.textContent /\ raised' = r.raised
    /\ UNCHANGED <<layout, pcMul, cbVars, syncVars>>

\* the user clicks the button of box j, which calls
\* increment_multiplier(this, className)
increment_multiplier(j, className) ==
    /\ pcMul = "ready"
    /\ j \in Boxes(layout)
    /\ LET input == find_input(layout, j, className)
       IN  IF input = NoElement
           THEN \* find_input ran past the first sibling: the TypeError ends
                \* the click handler before anything is assigned
                /\ value' = value
                /\ textContent' = textContent
                /\ raised' = TRUE
           ELSE /\ ToNumber(value[input]).nan
                   \/ ToNumber(value[input]).n < MaxValue
                /\ LET r == increment_result(layout, value, textContent, input)
                   IN  value' = r.value /\ textContent' = r.textContent
                       /\ raised' = r.raised
    /\ UNCHANGED <<layout, pcMul, cbVars, syncVars>>

\* the markup: each input is followed by its box.  One page has a single
\* common multiplier with two dependents; the others have a second common
\* multiplier before or after the dependent
OneCommon ==
    <<"common_multiplier", "box", "specific_multiplier", "box",
      "specific_multiplier", "box">>
CommonBefore ==
    <<"common_multiplier", "box", "common_multiplier", "box",
      "specific_multiplier", "box">>
CommonAfter ==
    <<"common_multiplier", "box", "specific_multiplier", "box",
      "common_multiplier", "box">>
MulLayouts == {OneCommon, CommonBefore, CommonAfter}

CbIdle ==
    /\ members = [g \in ContainerSet |-> {}]
    /\ checked = [c \in Cbs |-> FALSE]
    /\ oninput = [c \in Cbs |-> "none"]
    /\ cb_list = [g \in ContainerSet |-> <<>>]
    /\ bg = [g \in ContainerSet |-> ""]
    /\ pcCB = 0
    /\ eventLog = <<>> /\ runLog = <<>> /\ writeLog = <<>>

InitMul ==
    /\ CbIdle
    /\ SyncIdle
    /\ layout \in MulLayouts
    /\ value \in [1..Len(layout) -> Texts]
    /\ \A i \in 1..Len(layout) : ~IsInput(layout, i) => value[i] = <<>>
    /\ textContent = [i \in 1..Len(layout) |-> <<>>]
    /\ pcMul = "load"
    /\ raised = FALSE

ClassNames == {"common_multiplier", "specific_multiplier"}

NextMul ==
    \/ Load
    \/ \E i \in 1..Len(layout), t \in Texts : Edit(i, t)
    \/ \E j \in 1..Len(layout), c \in ClassNames : increment_multiplier(j, c)

SpecMul == InitMul /\ [][NextMul]_vars

-----------------------------------------------------------------------------
(* synchro page *)

\* var inputs1 = [input1, input2, input3]; var inputs2 = [input4, input5,
\* input6]; sync(inputs1); sync(inputs2)
GroupSize == 3
NumGroups == 2
Inputs == 1..(NumGroups * GroupSize)
SyncCalls == 1..NumGroups
inputs(g) == [k \in 1..GroupSize |-> (g - 1) * GroupSize + k]

NoSync == 0

\* what a handler run has done so far
SyncOut(v, f, w) == [inputValue |-> v, firings |-> f, writes |-> w]

\* for (var input of inputs) { input.value = value }; assigning .value
\* dispatches no event
RECURSIVE write_all(_, _, _)
write_all(list, text, s) ==
    IF list = <<>> THEN s
    ELSE write_all(Tail(list), text,
                   SyncOut([s.inputValue EXCEPT ![Head(list)] = text],
                           s.firings, Append(s.writes, Head(list))))

\* a handler that reads the loop variable of sync, the last input of the
\* list, instead of this
sync_handler_last(list, self, s) ==
    write_all(list, s.inputValue[list[Len(list)]],
              SyncOut(s.inputValue, Append(s.firings, self), s.writes))

\* a handler that dispatches an input event on every input it writes
sync_handler_dispatch(list, self, s) ==
    LET out == write_all(list, s.inputValue[self],
                         SyncOut(s.inputValue, Append(s.firings, self), s.writes))
    IN  SyncOut(out.inputValue,
                out.firings \o SelectSeq(list, LAMBDA i : i # self), out.writes)

\* a handler that writes every input of the document
sync_handler_document(list, self, s) ==
    write_all(InDocumentOrder(DOMAIN s.inputValue), s.inputValue[self],
              SyncOut(s.inputValue, Append(s.firings, self), s.writes))

\* the oninput function sync(inputs) installs, called with this = self
sync_handler(list, self, s) ==
    LET text == s.inputValue[self]
    IN  write_all(list, text,
                  SyncOut(s.inputValue, Append(s.firings, self), s.writes))

\* sync(inputs), called from the top level of the script
sync(g) ==
    /\ pcSync < NumGroups
    /\ g = pcSync + 1
    /\ syncOninput' =
           [i \in Inputs |->
               IF \E k \in 1..GroupSize : inputs(g)[k] = i THEN g
               ELSE syncOninput[i]]
    /\ pcSync' = pcSync + 1
    /\ UNCHANGED <<inputValue, lastEdit, firings, writes, cbVars, mulVars>>

SyncTexts == {"", "x", "y"}

\* the user types into input i so that it holds text t; the browser
\* dispatches the input event, which runs to completion
Type(i, t) ==
    /\ pcSync = NumGroups
    /\ inputValue[i] # t
    /\ LET typed == SyncOut([inputValue EXCEPT ![i] = t], <<>>, <<>>)
           g     == syncOninput[i]
           out   == IF g = NoSync THEN typed
                    ELSE sync_handler(inputs(g), i, typed)
       IN  /\ inputValue' = out.inputValue
           /\ firings' = out.firings
           /\ writes' = out.writes
           /\ lastEdit' = IF g = NoSync THEN lastEdit
                          ELSE [lastEdit EXCEPT ![g] = [member |-> i, text |-> t]]
    /\ UNCHANGED <<syncOninput, pcSync, cbVars, mulVars>>

InitSync ==
    /\ CbIdle
    /\ MulIdle
    /\ inputValue \in [Inputs -> SyncTexts]
    /\ syncOninput = [i \in Inputs |-> NoSync]
    /\ pcSync = 0
    /\ lastEdit = [g \in SyncCalls |-> [member |-> 0, text |-> ""]]
    /\ firings = <<>>
    /\ writes = <<>>

NextSync ==
    \/ \E g \in SyncCalls : sync(g)
    \/ \E i \in Inputs, t \in SyncTexts : Type(i, t)

SpecSync == InitSync /\ [][NextSync]_vars

-----------------------------------------------------------------------------
(* Properties of the check-boxes page *)

Bound(g) == \E i \in 1..pcCB : Containers[i] = g
AllChecked(g) == \A c \in members[g] : checked[c]
RunsOf(g) == SelectSeq(runLog, LAMBDA r : r.binding = g)
WritesOf(g) == SelectSeq(writeLog, LAMBDA w : w.sink = g)
EventsOf(g) == SelectSeq(eventLog, LAMBDA c : c \in members[g])

\* C1: once a group is bound, after any toggles its background colour is
\* 'lightgreen' exactly when every checkbox of the group is checked, and is
\* the empty value otherwise.
C1_ColourIffAllChecked ==
    \A g \in ContainerSet :
        Bound(g) => bg[g] = (IF AllChecked(g) THEN "lightgreen" ELSE "")

\* C1 witness: a box of an all-checked group was unchecked (the colour was
\* reset) and checked again, and the group is 'lightgreen' again.
C1_Witness ==
    /\ Len(eventLog) = 2
    /\ eventLog[1] = eventLog[2]
    /\ eventLog[1] \in members["result1"]
    /\ AllChecked("result1")
    /\ bg["result1"] = "lightgreen"
    /\ Len(WritesOf("result1")) = 3
    /\ WritesOf("result1")[1].value = "lightgreen"
    /\ WritesOf("result1")[2].value = ""

\* C2: the handler of a binding runs once when bind_checkboxes is called and
\* then once per input event of a checkbox of the group, in the order of the
\* events, each run writing the background colour exactly once.
C2_OneRunPerEvent ==
    \A g \in ContainerSet :
        Bound(g) =>
            /\ RunsOf(g) = <<[binding |-> g, this |-> DirectCall]>> \o
                    [i \in 1..Len(EventsOf(g)) |->
                        [binding |-> g, this |-> EventsOf(g)[i]]]
            /\ Len(WritesOf(g)) = 1 + Len(EventsOf(g))
            /\ Len(runLog) = Len(writeLog)

\* C2 witness: three events reached one binding, two of them the same box.
C2_Witness ==
    /\ Len(EventsOf("result2")) = 3
    /\ Len(RunsOf("result2")) = 4
    /\ EventsOf("result2")[1] = EventsOf("result2")[3]
    /\ EventsOf("result2")[1] # EventsOf("result2")[2]

-----------------------------------------------------------------------------
(* Properties of the multipliers page *)

\* the common multiplier of dependent i, found without find_input: the last
\* common multiplier among the elements up to i
CommonsUpTo(i) == {j \in 1..i : layout[j] = "common_multiplier"}
NearestCommon(i) == CHOOSE j \in CommonsUpTo(i) : \A k \in CommonsUpTo(i) : k <= j

\* a numeral: optional white space around an optionally signed run of digits
IsNumeral(s) ==
    LET t == DropTrailingWhiteSpace(SkipWhiteSpace(s))
        u == IF HasSign(t) THEN Tail(t) ELSE t
    IN  u # <<>> /\ \A k \in 1..Len(u) : IsDigit(u[k])

\* a text with no number at its start: after white space and a sign there
\* is no digit
IsNonNumeric(s) ==
    LET t == SkipWhiteSpace(s)
        u == IF HasSign(t) THEN Tail(t) ELSE t
    IN  u = <<>> \/ ~IsDigit(Head(u))

NaNText == <<"N", "a", "N">>
TimesSign == <<" ", "*", " ">>
ArrowSign == <<" ", "=", ">", " ">>

\* C3: once the script has run, after any edits and clicks, each with its
\* handler, no output is stale: the output of every dependent shows its own
\* current value, the current value of its common multiplier, and their
\* product.
C3_NoStaleOutput ==
    pcMul = "ready" =>
        \A i \in Specifics(layout) :
            textContent[i + 1] =
                output_text(parseInt(value[i]), parseInt(value[NearestCommon(i)]))

\* C3 witness: the common multiplier was counted up from -1 to 0 (its
\* handler ran) and both dependents show the new common value.
C3_Witness ==
    /\ layout = OneCommon
    /\ value[1] = <<"0">>
    /\ value[3] = <<"2">>
    /\ value[5] = <<"-", "1">>
    /\ textContent[4] = <<"2">> \o TimesSign \o <<"0">> \o ArrowSign \o <<"0">>
    /\ textContent[6] = <<"-", "1">> \o TimesSign \o <<"0">> \o ArrowSign \o <<"0">>

\* C7: a click on an increment button whose input holds the integer n leaves
\* the page exactly as setting that input to n + 1 by hand and handling its
\* input event does.
C7_IncrementIsManualEdit ==
    [][\A j \in 1..Len(layout), c \in ClassNames :
          LET input == find_input(layout, j, c)
          IN  (input # NoElement /\ IsNumeral(value[input])
                  /\ increment_multiplier(j, c)) =>
                  LET n == parseInt(value[input])
                      r == edit_result(layout, value, textContent, input,
                                       NumberToString(Num(n.n + 1)))
                  IN  /\ value'[input] = NumberToString(Num(n.n + 1))
                      /\ value' = r.value
                      /\ textContent' = r.textContent
                      /\ raised' = r.raised]_vars

\* C7 witness: a dependent was counted up from -1 to 0 and its output shows
\* the new value.
C7_Witness ==
    /\ layout = OneCommon
    /\ value[3] = <<"0">>
    /\ value[1] = <<" ", "1">>
    /\ textContent[4] = <<"0">> \o TimesSign \o <<"1">> \o ArrowSign \o <<"0">>

\* C8: no recompute raises, whatever texts the cells hold; a dependent
\* whose own text or whose common multiplier's text is non-numeric shows the
\* marker NaN for that operand and for the product, and every other
\* dependent's output is recomputed.
C8_MarkerPropagates ==
    pcMul = "ready" =>
        /\ ~update_all_multipliers(layout, value, textContent).raised
        /\ \A i \in 1..Len(layout) :
              IsInput(layout, i) =>
                  ~oninput_handler(layout, i, value, textContent).raised
        /\ \A i \in Specifics(layout) :
              LET own    == value[i]
                  shared == value[NearestCommon(i)]
                  shown(s) == IF IsNonNumeric(s) THEN NaNText
                              ELSE NumberToString(parseInt(s))
              IN  /\ textContent[i + 1] # <<>>
                  /\ (IsNonNumeric(own) \/ IsNonNumeric(shared)) =>
                        textContent[i + 1] =
                            shown(own) \o TimesSign \o shown(shared)
                                \o ArrowSign \o NaNText

\* C8 witness: one dependent holds letters and shows the marker, the other
\* shows its product.
C8_Witness ==
    /\ layout = OneCommon
    /\ pcMul = "ready"
    /\ value[1] = <<"2">>
    /\ value[3] = <<"a", "b">>
    /\ value[5] = <<"2">>
    /\ textContent[4] = NaNText \o TimesSign \o <<"2">> \o ArrowSign \o NaNText
    /\ textContent[6] = <<"2">> \o TimesSign \o <<"2">> \o ArrowSign \o <<"4">>

-----------------------------------------------------------------------------
(* Properties of the synchro page *)

Members(g) == {inputs(g)[k] : k \in 1..GroupSize}
GroupOf(i) == CHOOSE g \in SyncCalls : i \in Members(g)

\* C4: once a member of a group has been edited, every member of the group
\* holds the text of the latest edit of that group, whichever member it was
\* typed into.
C4_GroupHoldsLatestEdit ==
    \A g \in SyncCalls :
        lastEdit[g].member # 0 =>
            \A i \in Members(g) : inputValue[i] = lastEdit[g].text

\* C4 witness: the second member of the first group was edited to "x" and
\* all three members hold "x".
C4_Witness ==
    /\ lastEdit[1] = [member |-> 2, text |-> "x"]
    /\ \A i \in Members(1) : inputValue[i] = "x"
    /\ firings = <<2>>

\* C5: one user edit runs one handler, which writes every other member of
\* its group exactly once; none of these writes runs a handler again.
C5_SyncTerminates ==
    firings # <<>> =>
        LET origin == firings[1]
            outbound == SelectSeq(writes, LAMBDA w : w # origin)
        IN  /\ Len(firings) = 1
            /\ Len(outbound) = GroupSize - 1
            /\ \A i \in Members(GroupOf(origin)) \ {origin} :
                  Len(SelectSeq(writes, LAMBDA w : w = i)) = 1

\* C5 witness: an edit of the middle member of the second group ran its
\* handler once and wrote the group's members.
C5_Witness ==
    /\ firings = <<5>>
    /\ SelectSeq(writes, LAMBDA w : w # 5) = <<4, 6>>
    /\ inputValue[4] = "y" /\ inputValue[5] = "y" /\ inputValue[6] = "y"

\* C6: an edit of a member of one group leaves the value of every input
\* outside that group as it was and runs no handler of another group.
C6_GroupsIndependent ==
    [][(inputValue' # inputValue /\ firings' # <<>>) =>
          LET g == GroupOf(firings'[1])
          IN  /\ \A i \in Inputs \ Members(g) : inputValue'[i] = inputValue[i]
              /\ \A k \in 1..Len(firings') : firings'[k] \in Members(g)
              /\ \A k \in 1..Len(writes') : writes'[k] \in Members(g)
              /\ \A h \in SyncCalls \ {g} : lastEdit'[h] = lastEdit[h]]_vars

\* C6 witness: the second group was edited and is equal throughout, while
\* the first group, never edited, still holds different texts.
C6_Witness ==
    /\ lastEdit[2].member # 0
    /\ lastEdit[1].member = 0
    /\ firings = <<4>>
    /\ inputValue[1] # inputValue[2]
    /\ inputValue[4] = inputValue[5] /\ inputValue[5] = inputValue[6]

-----------------------------------------------------------------------------
(* Further properties of the check-boxes page *)

\* C9: binding a container that holds no checkbox is rejected: the call does
\* not complete as a binding and the container's colour is never written.
C9_EmptyGroupRejected ==
    \A g \in ContainerSet :
        members[g] = {} => (~Bound(g) /\ WritesOf(g) = <<>>)

RunsFor(g, c) == SelectSeq(runLog, LAMBDA r : r.binding = g /\ r.this = c)
EventsOn(c) == SelectSeq(eventLog, LAMBDA e : e = c)

\* C10: an input event of a checkbox that belongs to both bound groups runs
\* the handler of the first binding and then the handler of the second, so
\* the colours of both groups are recomputed.
C10_SharedCheckboxFiresBoth ==
    pcCB = Len(Containers) =>
        \A c \in members["result1"] \cap members["result2"] :
            /\ Len(RunsFor("result1", c)) = Len(EventsOn(c))
            /\ Len(RunsFor("result2", c)) = Len(EventsOn(c))
            /\ \A i \in 1..Len(runLog) :
                  runLog[i] = [binding |-> "result1", this |-> c] =>
                      /\ i < Len(runLog)
                      /\ runLog[i + 1] = [binding |-> "result2", this |-> c]
            /\ \A g \in ContainerSet :
                  bg[g] = (IF AllChecked(g) THEN "lightgreen" ELSE "")

-----------------------------------------------------------------------------
(* multipliers page: update_specific_multipliers called on its own *)

\* the lists update_specific_multipliers may be given: the dependents of
\* the page, any of them or none, in any order, none twice
SpecificLists(lay) ==
    {l \in UNION {[1..n -> Specifics(lay)] : n \in 0..Cardinality(Specifics(lay))} :
        \A a, b \in DOMAIN l : a # b => l[a] # l[b]}

\* the texts the inputs hold when the function is called on its own
PartialTexts == { <<"2">>, <<"-", "1">>, <<"a", "b">> }

\* a script assigns input.value = t; an assignment dispatches no event, so
\* no handler runs and the outputs stay as they are
SetValue(i, t) ==
    /\ pcMul = "script"
    /\ IsInput(layout, i)
    /\ value[i] # t
    /\ value' = [value EXCEPT ![i] = t]
    /\ UNCHANGED <<layout, textContent, pcMul, raised, cbVars, syncVars>>

\* a script calls update_specific_multipliers(l)
Call(l) ==
    /\ pcMul = "script"
    /\ l \in SpecificLists(layout)
    /\ LET out == update_specific_multipliers(l, layout, value, textContent)
       IN  textContent' = out.textContent /\ raised' = out.raised
    /\ UNCHANGED <<layout, value, pcMul, cbVars, syncVars>>

InitCalls(lays) ==
    /\ CbIdle
    /\ SyncIdle
    /\ layout \in lays
    /\ value \in [1..Len(layout) -> PartialTexts \cup {<<>>}]
    /\ \A i \in 1..Len(layout) :
          IF IsInput(layout, i) THEN value[i] # <<>> ELSE value[i] = <<>>
    /\ textContent = [i \in 1..Len(layout) |-> <<>>]
    /\ pcMul = "script"
    /\ raised = FALSE

NextCalls ==
    \/ \E i \in 1..Len(layout), t \in PartialTexts : SetValue(i, t)
    \/ \E l \in SpecificLists(layout) : Call(l)

\* pages where every dependent has a common multiplier before it
InitPartial == InitCalls(MulLayouts)

SpecPartial == InitPartial /\ [][NextCalls]_vars

\* pages where a dependent has no common multiplier at or before it: the
\* first dependent only, or both dependents
OrphanFirst ==
    <<"specific_multiplier", "box", "common_multiplier", "box",
      "specific_multiplier", "box">>
OrphanBoth ==
    <<"specific_multiplier", "box", "specific_multiplier", "box",
      "common_multiplier", "box">>
OrphanLayouts == {OrphanFirst, OrphanBoth}

InitOrphan == InitCalls(OrphanLayouts)

SpecOrphan == InitOrphan /\ [][NextCalls]_vars

-----------------------------------------------------------------------------
(* Recomputation on either page *)

\* either page: the check-boxes page or the multipliers page is loaded
InitPages == InitCB \/ InitMul

NextPages ==
    \/ pcMul = "idle" /\ NextCB
    \/ pcMul # "idle" /\ NextMul

SpecPages == InitPages /\ [][NextPages]_vars

Last(q) == q[Len(q)]

\* C11: a recompute run again with no checkbox or input changed in between
\* produces the same output and leaves every sink with the same content:
\* for cb_handler of a bound group, and for update_specific_multipliers on
\* any list of dependents.
C11_RecomputeIdempotent ==
    /\ \A g \in ContainerSet :
          Bound(g) =>
              LET r1 == cb_handler(g, DirectCall, cb_list[g], checked,
                                   CbOut(bg, runLog, writeLog))
                  r2 == cb_handler(g, DirectCall, cb_list[g], checked, r1)
              IN  /\ r1.bg = bg
                  /\ r2.bg = r1.bg
                  /\ Last(r2.writeLog) = Last(r1.writeLog)
                  /\ Last(r1.writeLog) = Last(WritesOf(g))
    /\ pcMul # "idle" =>
          \A l \in SpecificLists(layout) :
              LET r1 == update_specific_multipliers(l, layout, value, textContent)
                  r2 == update_specific_multipliers(l, layout, value,
                                                    r1.textContent)
              IN  /\ r2 = r1
                  /\ pcMul = "ready" => r1.textContent = textContent

\* C11 witness: a dependent holding "ab" was counted up to "NaN"; a further
\* click leaves "NaN" in place and runs the recompute again on unchanged
\* values.
C11_Witness ==
    /\ pcMul = "ready"
    /\ layout = OneCommon
    /\ value[1] = <<"2">>
    /\ value[3] = NaNText
    /\ textContent[4] = NaNText \o TimesSign \o <<"2">> \o ArrowSign \o NaNText
    /\ ENABLED increment_multiplier(4, "specific_multiplier")

-----------------------------------------------------------------------------
(* What the binding functions return *)

\* the value of a call bind_checkboxes(cb_group): the function has no
\* return statement
bind_checkboxes_returns == "undefined"

\* the value of a call sync(inputs): the function has no return statement
sync_returns == "undefined"

\* C12: every completed call of bind_checkboxes (and of sync) has returned
\* a function, the Unsubscribe handle, which stops further colour writes.
C12_ReturnsUnsubscribe ==
    /\ pcCB > 0 => bind_checkboxes_returns = "function"
    /\ pcSync > 0 => sync_returns = "function"

-----------------------------------------------------------------------------
(* Further properties of the multipliers page *)

\* the last element up to start that carries className, or NoElement
WithClassUpTo(start, className) == {j \in 1..start : layout[j] = className}
LastWithClass(start, className) ==
    IF WithClassUpTo(start, className) = {} THEN NoElement
    ELSE CHOOSE j \in WithClassUpTo(start, className) :
             \A k \in WithClassUpTo(start, className) : k <= j

Commons == {j \in 1..Len(layout) : layout[j] = "common_multiplier"}

\* C13: find_input returns the nearest element carrying className at or
\* before its start, and each dependent's output is made with the closest
\* common multiplier before it, never with another one.
C13_NearestPrecedingCommon ==
    pcMul # "idle" =>
        /\ \A start \in 1..Len(layout), c \in ClassNames :
              find_input(layout, start, c) = LastWithClass(start, c)
        /\ pcMul = "ready" =>
              \A i \in Specifics(layout) :
                  /\ textContent[i + 1] =
                        output_text(parseInt(value[i]),
                                    parseInt(value[LastWithClass(i, "common_multiplier")]))
                  /\ \A j \in Commons \ {LastWithClass(i, "common_multiplier")} :
                        parseInt(value[j]) #
                            parseInt(value[LastWithClass(i, "common_multiplier")])
                        => textContent[i + 1] #
                               output_text(parseInt(value[i]), parseInt(value[j]))

\* C13 witness: two common multipliers with different values precede the
\* dependent, and its output is made with the closer one.
C13_Witness ==
    /\ layout = CommonBefore
    /\ value[1] = <<"2">>
    /\ value[3] = <<"-", "1">>
    /\ value[5] = <<"2">>
    /\ textContent[6] =
           <<"2">> \o TimesSign \o <<"-", "1">> \o ArrowSign \o <<"-", "2">>

StartsWith(s, p) == Len(s) >= Len(p) /\ SubSeq(s, 1, Len(p)) = p
EndsWith(s, p) == Len(s) >= Len(p) /\ SubSeq(s, Len(s) - Len(p) + 1, Len(s)) = p

\* C15 as stated: a text that is not a whole integer numeral, "12a" and the
\* empty text included, gives the marker NaN for its operand and for the
\* product.
C15_NotNumeralGivesMarker ==
    pcMul = "ready" =>
        \A i \in Specifics(layout) :
            LET own    == value[i]
                shared == value[NearestCommon(i)]
            IN  /\ ~IsNumeral(own) => StartsWith(textContent[i + 1], NaNText)
                /\ (~IsNumeral(own) \/ ~IsNumeral(shared)) =>
                      EndsWith(textContent[i + 1], ArrowSign \o NaNText)

\* a text in which the reader finds no number: after leading white space
\* and a sign comes no decimal digit, or comes the prefix 0x or 0X with no
\* hexadecimal digit behind it
ReadsNoNumber(s) ==
    LET t == SkipWhiteSpace(s)
        u == IF HasSign(t) THEN Tail(t) ELSE t
    IN  IF StartsWith(u, <<"0", "x">>) \/ StartsWith(u, <<"0", "X">>)
        THEN Len(u) < 3 \/ ~IsRadixDigit(u[3], 16)
        ELSE u = <<>> \/ ~IsDigit(Head(u))

\* C15 amended: the operand is the marker NaN exactly when no number is
\* read from the text: it has no digit after its leading white space and
\* sign (the empty text included), or it has the prefix 0x with no
\* hexadecimal digit behind it; the product is NaN exactly when an operand
\* is.  A text that starts with digits and goes on with other characters
\* counts as the number at its start: "12a" is shown as 12, and "0x1", read
\* as a hexadecimal numeral, as 1.
C15_LeadingIntegerIsRead ==
    pcMul = "ready" =>
        \A i \in Specifics(layout) :
            LET own    == value[i]
                shared == value[NearestCommon(i)]
            IN  /\ ReadsNoNumber(own) <=>
                      StartsWith(textContent[i + 1], NaNText \o TimesSign)
                /\ (ReadsNoNumber(own) \/ ReadsNoNumber(shared)) <=>
                      EndsWith(textContent[i + 1], ArrowSign \o NaNText)
                /\ own = <<"1", "2", "a">> =>
                      StartsWith(textContent[i + 1], <<"1", "2">> \o TimesSign)
                /\ shared = <<"1", "2", "a">> =>
                      \E k \in 1..(Len(textContent[i + 1]) - 8) :
                          SubSeq(textContent[i + 1], k, k + 8) =
                              TimesSign \o <<"1", "2">> \o ArrowSign
                /\ own = <<"0", "x", "1">> =>
                      StartsWith(textContent[i + 1], <<"1">> \o TimesSign)
                /\ own = <<"0", "x">> =>
                      StartsWith(textContent[i + 1], NaNText \o TimesSign)

\* C15 witness: one dependent holds "12a" and shows 12 and a numeric
\* product; the other holds the empty text and shows the marker.
C15_Witness ==
    /\ layout = OneCommon
    /\ pcMul = "ready"
    /\ value[1] = <<"2">>
    /\ value[3] = <<"1", "2", "a">>
    /\ value[5] = <<>>
    /\ textContent[4] =
           <<"1", "2">> \o TimesSign \o <<"2">> \o ArrowSign \o <<"2", "4">>
    /\ textContent[6] = NaNText \o TimesSign \o <<"2">> \o ArrowSign \o NaNText

-----------------------------------------------------------------------------
(* Properties of update_specific_multipliers called on its own *)

InList(l, i) == \E k \in 1..Len(l) : l[k] = i
FreshOutput(i) ==
    output_text(parseInt(value[i]), parseInt(value[NearestCommon(i)]))

\* C14: a call update_specific_multipliers(S) writes the output of every
\* dependent in S, leaves every other output as it was, and changes no
\* input's value.
C14_PartialUpdate ==
    [][\A l \in SpecificLists(layout) :
          Call(l) =>
              /\ value' = value
              /\ ~raised'
              /\ \A j \in 1..Len(layout) :
                    IF j - 1 \in Specifics(layout) /\ InList(l, j - 1)
                    THEN textContent'[j] = FreshOutput(j - 1)
                    ELSE textContent'[j] = textContent[j]]_vars

\* C14 witness: both dependents were changed after their outputs were
\* written and only the first was updated: its output is current, the
\* other still shows the old value.
C14_Witness ==
    /\ layout = OneCommon
    /\ pcMul = "script"
    /\ value[1] = <<"2">>
    /\ value[3] = <<"-", "1">>
    /\ value[5] = <<"-", "1">>
    /\ textContent[4] =
           <<"-", "1">> \o TimesSign \o <<"2">> \o ArrowSign \o <<"-", "2">>
    /\ textContent[6] = <<"2">> \o TimesSign \o <<"2">> \o ArrowSign \o <<"4">>

IsOrphan(i) == CommonsUpTo(i) = {}
FirstOrphan(l) == Min({k \in 1..Len(l) : IsOrphan(l[k])})

\* C16: for a dependent with no common multiplier at or before it
\* find_input walks off the start of the siblings, and a call that reaches
\* such a dependent raises there: the outputs of the dependents before it
\* in the list are rewritten, its own and those of the dependents after it
\* stay as they were.
C16_RaisesAtOrphan ==
    [][\A l \in SpecificLists(layout) :
          (Call(l) /\ \E k \in 1..Len(l) : IsOrphan(l[k])) =>
              /\ find_input(layout, l[FirstOrphan(l)], "common_multiplier")
                    = NoElement
              /\ raised'
              /\ \A k \in 1..Len(l) :
                    IF k < FirstOrphan(l)
                    THEN textContent'[l[k] + 1] = FreshOutput(l[k])
                    ELSE textContent'[l[k] + 1] = textContent[l[k] + 1]]_vars

\* C16 witness: the dependent after the common multiplier had its output
\* written, then its value changed, and a call listing the orphan first
\* raised: the output still shows the old value.
C16_Witness ==
    /\ layout = OrphanFirst
    /\ raised
    /\ value[3] = <<"2">>
    /\ value[5] = <<"-", "1">>
    /\ textContent[6] = <<"2">> \o TimesSign \o <<"2">> \o ArrowSign \o <<"4">>
    /\ textContent[2] = <<>>

====
